---- MODULE Spec2Model ----
(***************************************************************************)
(* The FastAPI exercises of the repository as one state machine.  Each     *)
(* exercise is its own process (its own script and its own uvicorn), so a  *)
(* behaviour runs exactly one of them: Init picks the application and the  *)
(* actions of the other applications stay disabled.                        *)
(*                                                                         *)
(*   lektion_3   GET /, GET /items/{item_id}, GET /users, POST /users,     *)
(*               GET /fox                 (in-memory userList)             *)
(*   exercise_1  GET /, GET /products     (external fetch, productList)    *)
(*   exercise_2  POST /products, POST /products/bulk, GET /products        *)
(*               (psycopg connection pool, table products_raw)             *)
(*   lektion_5   GET /, POST /products    (connection pool, products_raw)  *)
(***************************************************************************)
EXTENDS Integers, Sequences, FiniteSets, TLC

\* calls[c].before is history: the number of rows a scan showed when the
\* request of call c arrived.
VARIABLES
    app,          \* the exercise this process runs
    userList,     \* lektion_3: the module-level list of users
    productList,  \* exercise_1: the module-level list of products
    created,      \* history: the bodies POST /users answered 201 with, in order
    last,         \* the last request served by an in-memory application
    calls,        \* database applications: each handler call's position
    free,         \* the connections waiting in the pool
    heap          \* products_raw: its tuples in storage order

vars == <<app, userList, productList, created, last, calls, free, heap>>

(***************************************************************************)
(* JSON values.  A value is a triple <<tag, text, sub>>: tag is the JSON   *)
(* type, text the scalar's canonical text, sub the members of an object    *)
(* (triples <<name, tag, text>>) or the elements of an array (triples      *)
(* <<"", tag, text>>).  A JSON number is one type: 10 and 10.0 are the     *)
(* same number and share one text.                                         *)
(***************************************************************************)
Null == <<"null", "", <<>>>>

Str(s) == <<"str", s, <<>>>>

Num(s) == <<"num", s, <<>>>>

Bool(s) == <<"bool", s, <<>>>>

Obj(members) == <<"obj", "", members>>

Arr(elems) == <<"arr", "", elems>>

\* Texts of the model's alphabet that float() parses, and those int() parses.
FloatTexts == {"0", "1", "2", "9.5", "85", "120", "249"}

IntTexts == {"0", "1", "2", "85", "120", "249"}

\* str.lower() on the model's alphabet.
Lower(s) == CASE s = "True" -> "true" [] s = "False" -> "false" [] OTHER -> s

\* The strings pydantic's lax mode reads as a boolean.
TrueWords == {"1", "on", "t", "true", "y", "yes"}

FalseWords == {"0", "off", "f", "false", "n", "no"}

Rejected == <<FALSE, "null", "">>

(***************************************************************************)
(* pydantic's validation of one scalar against a declared type, in the lax *)
(* mode the models run in (no model sets strict): <<ok, tag, text>>.       *)
(***************************************************************************)
ConvScalar(type, tag, text) ==
    CASE type = "str" ->
            IF tag = "str" THEN <<TRUE, "str", text>> ELSE Rejected
      [] type = "bool" ->
            IF tag = "bool" THEN <<TRUE, "bool", text>>
            ELSE IF tag = "str" /\ Lower(text) \in TrueWords THEN <<TRUE, "bool", "true">>
            ELSE IF tag = "str" /\ Lower(text) \in FalseWords THEN <<TRUE, "bool", "false">>
            ELSE IF tag = "num" /\ text = "1" THEN <<TRUE, "bool", "true">>
            ELSE IF tag = "num" /\ text = "0" THEN <<TRUE, "bool", "false">>
            ELSE Rejected
      [] type = "float" ->
            IF tag = "num" THEN <<TRUE, "num", text>>
            ELSE IF tag = "str" /\ text \in FloatTexts THEN <<TRUE, "num", text>>
            ELSE IF tag = "bool" THEN <<TRUE, "num", IF text = "true" THEN "1" ELSE "0">>
            ELSE Rejected
      [] type = "int" ->
            IF tag = "num" /\ text \in IntTexts THEN <<TRUE, "num", text>>
            ELSE IF tag = "str" /\ text \in IntTexts THEN <<TRUE, "num", text>>
            ELSE IF tag = "bool" THEN <<TRUE, "num", IF text = "true" THEN "1" ELSE "0">>
            ELSE Rejected
      [] OTHER -> Rejected

(***************************************************************************)
(* The Schema Models.  A schema is a sequence of fields                    *)
(* <<name, type, required>>; type is a scalar type, "list[str]", or the    *)
(* name of a nested schema.                                                *)
(***************************************************************************)
UserSchema ==
    << <<"username", "str", TRUE>>,
       <<"password", "str", TRUE>>,
       <<"is_enabled", "bool", TRUE>> >>

UserSchemaResponse == << <<"username", "str", TRUE>> >>

DimensionsSchema ==
    << <<"width_cm", "float", TRUE>>,
       <<"height_cm", "float", TRUE>>,
       <<"depth_cm", "float", TRUE>> >>

RatingSchema == << <<"rate", "float", TRUE>>, <<"count", "int", TRUE>> >>

\* exercise_2/schema/product.py
ProductSchema ==
    << <<"product_id", "str", TRUE>>,
       <<"name", "str", TRUE>>,
       <<"price", "float", TRUE>>,
       <<"currency", "str", TRUE>>,
       <<"category", "str", FALSE>>,
       <<"brand", "str", FALSE>>,
       <<"tags", "list[str]", FALSE>>,
       <<"dimensions", "DimensionsSchema", FALSE>> >>

\* exercise_1/schema/product.py
StoreProductSchema ==
    << <<"id", "int", TRUE>>,
       <<"title", "str", TRUE>>,
       <<"price", "float", TRUE>>,
       <<"description", "str", TRUE>>,
       <<"category", "str", TRUE>>,
       <<"image", "str", TRUE>>,
       <<"rating", "RatingSchema", TRUE>> >>

\* lektion_3's schema/fox.py is not among the files: the shape the random-fox
\* API answers with.
FoxSchema == << <<"image", "str", TRUE>>, <<"link", "str", TRUE>> >>

Nested(type) ==
    CASE type = "DimensionsSchema" -> DimensionsSchema
      [] type = "RatingSchema" -> RatingSchema
      [] OTHER -> <<>>

FieldNames(schema) == {schema[i][1] : i \in 1..Len(schema)}

MemberNames(members) == {members[i][1] : i \in 1..Len(members)}

Member(members, name) ==
    members[CHOOSE i \in 1..Len(members) : members[i][1] = name]

\* A nested model: every member of the nested schema present and convertible;
\* members the schema does not declare are ignored.
NestedOk(schema, members) ==
    \A i \in 1..Len(schema) :
        /\ schema[i][1] \in MemberNames(members)
        /\ LET m == Member(members, schema[i][1])
           IN  ConvScalar(schema[i][2], m[2], m[3])[1]

NestedDump(schema, members) ==
    [i \in 1..Len(schema) |->
        LET m == Member(members, schema[i][1])
            c == ConvScalar(schema[i][2], m[2], m[3])
        IN  <<schema[i][1], c[2], c[3]>>]

\* One field's value against its declared type: <<ok, value>>.
ConvValue(type, v) ==
    IF type = "list[str]"
    THEN IF v[1] = "arr" /\ \A i \in 1..Len(v[3]) : v[3][i][2] = "str"
         THEN <<TRUE, v>> ELSE <<FALSE, Null>>
    ELSE IF Nested(type) # <<>>
    THEN IF v[1] = "obj" /\ NestedOk(Nested(type), v[3])
         THEN <<TRUE, Obj(NestedDump(Nested(type), v[3]))>> ELSE <<FALSE, Null>>
    ELSE LET c == ConvScalar(type, v[1], v[2])
         IN  IF v[3] = <<>> /\ c[1] THEN <<TRUE, <<c[2], c[3], <<>>>>>> ELSE <<FALSE, Null>>

\* A field: a required one must be present; an optional one (Union[T, None]
\* = None) may be absent or null.
FieldOk_all_optional(f, p) ==
    IF f[1] \in DOMAIN p
    THEN (~f[3] /\ p[f[1]] = Null) \/ ConvValue(f[2], p[f[1]])[1]
    ELSE TRUE

FieldOk(f, p) ==
    IF f[1] \in DOMAIN p
    THEN (~f[3] /\ p[f[1]] = Null) \/ ConvValue(f[2], p[f[1]])[1]
    ELSE ~f[3]

FieldDump(f, p) ==
    IF f[1] \in DOMAIN p /\ p[f[1]] # Null THEN ConvValue(f[2], p[f[1]])[2] ELSE Null

\* Model(**payload): whether validation passes, and model_dump() of the result.
Validates(schema, p) == \A i \in 1..Len(schema) : FieldOk(schema[i], p)

ModelDump(schema, p) ==
    [n \in FieldNames(schema) |->
        FieldDump(schema[CHOOSE i \in 1..Len(schema) : schema[i][1] = n], p)]

\* Serialization through a response_model: the fields that model declares.
Serialize(schema, rec) == [n \in FieldNames(schema) |-> rec[n]]

(***************************************************************************)
(* Bounds of the model, and the requests the clients may send.             *)
(***************************************************************************)
\* Successful POST /users after the seed.
MaxCreated == 2

\* Items in the list the upstream store API answers with.
MaxItems == 2

\* Elements of a POST /products/bulk body.
MaxBulk == 2

\* Rows the requests of one run ask products_raw to take.
MaxRows == 3

\* Handler calls of a database application (worker threads serving them).
NumCalls == 2

\* Connections of the pool.
PoolSize == 2

Without(p, name) == [n \in DOMAIN p \ {name} |-> p[n]]

With(p, name, v) == [n \in DOMAIN p \cup {name} |-> IF n = name THEN v ELSE p[n]]

\* POST /users bodies: well typed, coercible (a string for the bool, as the
\* seed itself passes), missing a field, wrong-typed.
UserAnn == [username |-> Str("Ann"), password |-> Str("pw"), is_enabled |-> Bool("true")]

UserBo == [username |-> Str("Bo"), password |-> Str("pw"), is_enabled |-> Bool("false")]

UserPayloads ==
    { UserAnn, UserBo,
      With(UserAnn, "is_enabled", Str("True")),
      With(UserBo, "is_enabled", Num("0")),
      With(UserAnn, "is_enabled", Str("maybe")),
      With(UserAnn, "username", Num("1")),
      With(UserAnn, "password", Null),
      Without(UserAnn, "is_enabled"),
      Without(UserBo, "username") }

\* POST /products bodies of exercise_2.
Lamp ==
    [product_id |-> Str("p1"), name |-> Str("Lamp"), price |-> Num("9.5"),
     currency |-> Str("SEK")]

Desk ==
    [product_id |-> Str("p2"), name |-> Str("Desk"), price |-> Num("249"),
     currency |-> Str("EUR"), category |-> Str("home"), brand |-> Null,
     tags |-> Arr(<< <<"", "str", "new">>, <<"", "str", "oak">> >>),
     dimensions |-> Obj(<< <<"width_cm", "num", "85">>, <<"height_cm", "num", "9.5">>,
                           <<"depth_cm", "num", "2">> >>)]

ProductPayloads ==
    { Lamp,
      With(Lamp, "price", Str("cheap")),
      Without(Lamp, "currency"),
      With(Desk, "tags", Arr(<< <<"", "str", "new">>, <<"", "num", "2">> >>)),
      With(Desk, "dimensions", Obj(<< <<"width_cm", "num", "85">>,
                                      <<"height_cm", "num", "9.5">> >>)) }

\* POST /products/bulk bodies: up to MaxBulk products, all valid or all but
\* one.
DeskPriced == With(Desk, "price", Str("249"))

BulkBodies ==
    UNION {{[i \in 1..n |-> IF i = bad THEN Without(Desk, "name")
                            ELSE IF i = 1 THEN DeskPriced ELSE Desk] : bad \in 0..n}
           : n \in 0..MaxBulk}

\* Items and bodies the upstream APIs may answer with.
Laptop ==
    [id |-> Num("1"), title |-> Str("Laptop"), price |-> Num("9.5"),
     description |-> Str("d"), category |-> Str("c"), image |-> Str("i"),
     rating |-> Obj(<< <<"rate", "num", "9.5">>, <<"count", "num", "85">> >>)]

Mouse ==
    [id |-> Num("2"), title |-> Str("Mouse"), price |-> Str("9.5"),
     description |-> Str("d"), category |-> Str("c"), image |-> Str("i"),
     rating |-> Obj(<< <<"rate", "num", "2">>, <<"count", "str", "85">> >>)]

StoreItems ==
    { Laptop, Mouse,
      Without(Laptop, "rating"),
      With(Laptop, "id", Num("9.5")),
      With(Laptop, "rating", Obj(<< <<"rate", "num", "2">> >>)) }

Fox == [image |-> Str("fox.jpg"), link |-> Str("fox.html")]

FoxBodies == {Fox, Without(Fox, "link"), With(Fox, "image", Num("1"))}

\* What requests.get(...) followed by .json() can come to: the GET raises, the
\* body is not JSON, or the body is this JSON value.
Raised == [kind |-> "raised", value |-> <<>>]

NotJson == [kind |-> "notjson", value |-> <<>>]

Json(v) == [kind |-> "json", value |-> v]

(***************************************************************************)
(* The state after the modules are imported.                               *)
(***************************************************************************)
Apps == {"lektion_3", "exercise_1", "exercise_2", "lektion_5"}

DbApps == {"exercise_2", "lektion_5"}

\* lektion_3/main.py: userList, built by UserSchema(...) from strings.
SeedUsers ==
    << ModelDump(UserSchema, [username |-> Str("Benny"), password |-> Str("123"),
                              is_enabled |-> Str("True")]),
       ModelDump(UserSchema, [username |-> Str("Frida"), password |-> Str("321"),
                              is_enabled |-> Str("True")]),
       ModelDump(UserSchema, [username |-> Str("Tommy"), password |-> Str("abc"),
                              is_enabled |-> Str("False")]) >>

\* exercise_1/main.py: productList.
SeedProducts ==
    << ModelDump(StoreProductSchema,
                 [id |-> Num("1"), title |-> Str("Laptop"), price |-> Num("299.99"),
                  description |-> Str("Powerful laptop for work"),
                  category |-> Str("Electronics"), image |-> Str("surface-laptop"),
                  rating |-> Obj(<< <<"rate", "num", "4.2">>, <<"count", "num", "85">> >>)]),
       ModelDump(StoreProductSchema,
                 [id |-> Num("2"), title |-> Str("Mouse"), price |-> Num("29.99"),
                  description |-> Str("Ergonomic wireless mouse"),
                  category |-> Str("Electronics"), image |-> Str("what-is-mouse"),
                  rating |-> Obj(<< <<"rate", "num", "4.5">>, <<"count", "num", "120">> >>)]) >>

Calls == 1..NumCalls

Conns == 1..PoolSize

NoRequest == [route |-> "", req |-> <<>>, status |-> 0, body |-> <<>>, gets |-> 0]

IdleCall ==
    [pc |-> "idle", route |-> "", req |-> <<>>, rows |-> <<>>, sent |-> 0,
     conn |-> {}, status |-> 0, body |-> <<>>, before |-> 0]

Init ==
    /\ app \in Apps
    /\ userList = IF app = "lektion_3" THEN SeedUsers ELSE <<>>
    /\ productList = IF app = "exercise_1" THEN SeedProducts ELSE <<>>
    /\ created = <<>>
    /\ last = NoRequest
    /\ calls = [c \in Calls |-> IdleCall]
    /\ free \in (IF app \in DbApps THEN {{}, Conns} ELSE {{}})
    /\ heap = <<>>

(***************************************************************************)
(* The HTTP layer (FastAPI): what a handler's outcome becomes.             *)
(***************************************************************************)
\* The body failed validation: the handler is not called.
Unprocessable == [status |-> 422, body |-> Str("Unprocessable Entity")]

\* The handler raised: the generic failure response.
ServerError == [status |-> 500, body |-> Str("Internal Server Error")]

Answer(code, v) == [status |-> code, body |-> v]

Served(route, req, ans, n) ==
    [route |-> route, req |-> req, status |-> ans.status, body |-> ans.body, gets |-> n]

InMemoryFrame == UNCHANGED <<app, productList, calls, free, heap>>

(***************************************************************************)
(* lektion_3/main.py                                                       *)
(***************************************************************************)
\* @app.get("/")
root ==
    /\ app = "lektion_3"
    /\ last' = Served("GET /", <<>>, Answer(200, [Hello |-> Str("World")]), 0)
    /\ UNCHANGED <<userList, created>>
    /\ InMemoryFrame

\* @app.get("/items/{item_id}"): item_id: int is decoded from the path segment.
get_item_response(segment, color) ==
    LET id == ConvScalar("int", "str", segment)
    IN  IF id[1]
        THEN Answer(200, [item_id |-> <<id[2], id[3], <<>>>>, color |-> color])
        ELSE Unprocessable

get_item ==
    /\ app = "lektion_3"
    /\ \E segment \in {"249", "abc"}, color \in {Null, Str("black")} :
          last' = Served("GET /items/{item_id}", <<Str(segment), color>>,
                         get_item_response(segment, color), 0)
    /\ UNCHANGED <<userList, created>>
    /\ InMemoryFrame

\* @app.get("/users", response_model=list[UserSchemaResponse])
get_users_response(users) ==
    Answer(200, [i \in 1..Len(users) |-> Serialize(UserSchemaResponse, users[i])])

get_users ==
    /\ app = "lektion_3"
    /\ last' = Served("GET /users", <<>>, get_users_response(userList), 0)
    /\ UNCHANGED <<userList, created>>
    /\ InMemoryFrame

\* @app.post("/users", response_model=UserSchema, status_code=201)
post_user_list_insert_first(users, user) == <<user>> \o users

post_user_list(users, user) == Append(users, user)

post_user_response_as_listed(user) == Answer(201, Serialize(UserSchemaResponse, user))

post_user_response(user) == Answer(201, Serialize(UserSchema, user))

post_user ==
    /\ app = "lektion_3"
    /\ \E p \in UserPayloads :
          IF Validates(UserSchema, p)
          THEN LET user == ModelDump(UserSchema, p)
               IN  /\ Len(created) < MaxCreated
                   /\ userList' = post_user_list(userList, user)
                   /\ last' = Served("POST /users", p, post_user_response(user), 0)
                   /\ created' = Append(created, last'.body)
          ELSE /\ last' = Served("POST /users", p, Unprocessable, 0)
               /\ UNCHANGED <<userList, created>>
    /\ InMemoryFrame

\* @app.get("/fox", response_model=FoxSchema): one requests.get, .json(),
\* FoxSchema(**result_json); nothing is caught.
get_fox_response(upstream) ==
    IF upstream.kind = "json" /\ Validates(FoxSchema, upstream.value)
    THEN Answer(200, Serialize(FoxSchema, ModelDump(FoxSchema, upstream.value)))
    ELSE ServerError

get_fox_gets(upstream) == 1

get_fox ==
    /\ app = "lektion_3"
    /\ \E upstream \in {Raised, NotJson} \cup {Json(v) : v \in FoxBodies} :
          last' = Served("GET /fox", upstream, get_fox_response(upstream),
                         get_fox_gets(upstream))
    /\ UNCHANGED <<userList, created>>
    /\ InMemoryFrame

(***************************************************************************)
(* exercise_1/main.py                                                      *)
(***************************************************************************)
\* @app.get("/")
hello_world ==
    /\ app = "exercise_1"
    /\ last' = Served("GET /", <<>>, Answer(200, [message |-> Str("Hello World")]), 0)
    /\ UNCHANGED <<userList, created>>
    /\ InMemoryFrame

\* The loop of get_products: ProductSchema(**item) for each item in turn, the
\* first failure raising out of the handler: <<completed, products>>.
RECURSIVE validate_items(_, _)
validate_items(items, products) ==
    IF items = <<>> THEN <<TRUE, products>>
    ELSE IF ~Validates(StoreProductSchema, Head(items)) THEN <<FALSE, products>>
    ELSE validate_items(Tail(items),
                        Append(products, ModelDump(StoreProductSchema, Head(items))))

\* @app.get("/products", response_model=list[ProductSchema])
store_products_response_partial(upstream) ==
    IF upstream.kind # "json" THEN ServerError
    ELSE LET r == validate_items(upstream.value, <<>>)
         IN  Answer(200, [i \in 1..Len(r[2]) |-> Serialize(StoreProductSchema, r[2][i])])

store_products_response(upstream) ==
    IF upstream.kind # "json" THEN ServerError
    ELSE LET r == validate_items(upstream.value, <<>>)
         IN  IF r[1]
             THEN Answer(200, [i \in 1..Len(r[2]) |-> Serialize(StoreProductSchema, r[2][i])])
             ELSE ServerError

store_products_gets(upstream) == 1

store_products ==
    /\ app = "exercise_1"
    /\ \E upstream \in {Raised, NotJson}
            \cup {Json(v) : v \in UNION {[1..n -> StoreItems] : n \in 0..MaxItems}} :
          last' = Served("GET /products", upstream, store_products_response(upstream),
                         store_products_gets(upstream))
    /\ UNCHANGED <<userList, created>>
    /\ InMemoryFrame

(***************************************************************************)
(* products_raw and the connection pool (psycopg, psycopg_pool).           *)
(* A tuple is written into the table when its INSERT executes and becomes  *)
(* visible to other connections when its transaction commits; a rollback   *)
(* discards the connection's uncommitted tuples.  A connection taken from  *)
(* the pool is not in autocommit mode, so the first statement opens a      *)
(* transaction that lasts until commit or rollback.                        *)
(***************************************************************************)
Tuple(row, c, k) == [row |-> row, tx |-> c, conn |-> {k}, committed |-> FALSE]

IsCommitted(t) == t.committed

\* SELECT product FROM products_raw, as any connection sees it: the committed
\* tuples in storage order.
Visible(h) == SelectSeq(h, IsCommitted)

Rows(h) == [i \in 1..Len(Visible(h)) |-> Visible(h)[i].row]

\* conn.execute("INSERT INTO products_raw (product) VALUES (%s)", (Json(row),))
insert_product_over_last(h, row, c, k) ==
    IF h = <<>> THEN <<Tuple(row, c, k)>> ELSE [h EXCEPT ![Len(h)] = Tuple(row, c, k)]

insert_product(h, row, c, k) == Append(h, Tuple(row, c, k))

\* conn.commit()
commit_nothing(h, k) == h

commit(h, k) ==
    [i \in 1..Len(h) |->
        IF k \in h[i].conn THEN [h[i] EXCEPT !.committed = TRUE, !.conn = {}] ELSE h[i]]

\* conn.rollback(), which leaving the connection block on an exception runs.
rollback(h, k) ==
    LET Keeps(t) == k \notin t.conn
    IN  SelectSeq(h, Keeps)

\* pool.connection().__enter__: a connection leaves the pool for the caller.
getconn_left_in_pool(pool, k) == pool

getconn(pool, k) == pool \ {k}

\* pool.connection().__exit__: the connection goes back.
putconn_never(pool, ks) == pool

putconn(pool, ks) == pool \cup ks

DbFrame == UNCHANGED <<app, userList, productList, created, last>>

InFlight(c) == calls[c].pc \notin {"idle", "done"}

Finish(c, ans) ==
    [calls[c] EXCEPT !.pc = "done", !.conn = {}, !.status = ans.status, !.body = ans.body]

(***************************************************************************)
(* exercise_2/main.py and lektion_5_postgressql_fastapi/main.py: a request *)
(* arrives on a worker thread; its body is validated before the handler    *)
(* runs.                                                                   *)
(***************************************************************************)
\* lektion_5's schema/product.py is not among the files; the spec's example
\* product (id, title, price, description, category, image, rating) is the
\* one exercise_1 declares.
Lektion5ProductSchema == StoreProductSchema

\* The ProductSchema a POST /products body is validated against.
BodySchema == IF app = "lektion_5" THEN Lektion5ProductSchema ELSE ProductSchema

Bodies == IF app = "lektion_5" THEN StoreItems ELSE ProductPayloads

\* The rows asked for so far, by the calls 1..n.
RECURSIVE Asked(_)
Asked(n) == IF n = 0 THEN 0 ELSE Asked(n - 1) + Len(calls[n].rows)

Accept(c, route, req, rows) ==
    [calls[c] EXCEPT !.pc = "acquire", !.route = route, !.req = req, !.rows = rows,
                     !.before = Len(Rows(heap))]

Reject(c, route, req) ==
    [Finish(c, Unprocessable) EXCEPT !.route = route, !.req = req]

\* lektion_5: @app.get("/")
db_root(c) ==
    /\ app = "lektion_5"
    /\ calls[c].pc = "idle"
    /\ calls' = [calls EXCEPT ![c] =
                    [Finish(c, Answer(200, [Hello |-> Str("World")])) EXCEPT !.route = "GET /"]]
    /\ UNCHANGED <<free, heap>>
    /\ DbFrame

\* POST /products arrives: create_product(product: ProductSchema),
\* post_product(product: ProductSchema).
receive_product(c) ==
    /\ app \in DbApps
    /\ calls[c].pc = "idle"
    /\ Asked(NumCalls) < MaxRows
    /\ \E p \in Bodies :
          calls' = [calls EXCEPT ![c] =
                       IF Validates(BodySchema, p)
                       THEN Accept(c, "POST /products", p, <<ModelDump(BodySchema, p)>>)
                       ELSE Reject(c, "POST /products", p)]
    /\ UNCHANGED <<free, heap>>
    /\ DbFrame

\* POST /products/bulk arrives: create_products_bulk(products: list[ProductSchema]).
receive_bulk(c) ==
    /\ app = "exercise_2"
    /\ calls[c].pc = "idle"
    /\ \E ps \in BulkBodies :
          /\ Asked(NumCalls) + Len(ps) <= MaxRows
          /\ calls' = [calls EXCEPT ![c] =
                          IF \A i \in 1..Len(ps) : Validates(ProductSchema, ps[i])
                          THEN Accept(c, "POST /products/bulk", ps,
                                      [i \in 1..Len(ps) |-> ModelDump(ProductSchema, ps[i])])
                          ELSE Reject(c, "POST /products/bulk", ps)]
    /\ UNCHANGED <<free, heap>>
    /\ DbFrame

\* GET /products arrives: get_products().
receive_scan(c) ==
    /\ app = "exercise_2"
    /\ calls[c].pc = "idle"
    /\ calls' = [calls EXCEPT ![c] = Accept(c, "GET /products", <<>>, <<>>)]
    /\ UNCHANGED <<free, heap>>
    /\ DbFrame

\* with pool.connection() as conn:
acquire(c) ==
    /\ calls[c].pc = "acquire"
    /\ \E k \in free :
          /\ free' = getconn(free, k)
          /\ calls' = [calls EXCEPT ![c].pc = "execute", ![c].conn = {k}]
    /\ UNCHANGED heap
    /\ DbFrame

\* pool.connection() found no connection before its timeout: PoolTimeout
\* leaves the handler.
pool_timeout(c) ==
    /\ calls[c].pc = "acquire"
    /\ free = {}
    /\ calls' = [calls EXCEPT ![c] = Finish(c, ServerError)]
    /\ UNCHANGED <<free, heap>>
    /\ DbFrame

\* insert_product(conn, product.model_dump()) / cur.executemany(...): the next
\* row's INSERT runs on the call's connection.
execute_insert(c) ==
    /\ calls[c].pc = "execute"
    /\ calls[c].route # "GET /products"
    /\ LET n == calls[c].sent
       IN  IF n < Len(calls[c].rows)
           THEN /\ \E k \in calls[c].conn :
                      heap' = insert_product(heap, calls[c].rows[n + 1], c, k)
                /\ calls' = [calls EXCEPT ![c].sent = n + 1,
                                          ![c].pc = IF n + 1 = Len(calls[c].rows)
                                                    THEN "commit" ELSE "execute"]
           ELSE /\ calls' = [calls EXCEPT ![c].pc = "commit"]
                /\ UNCHANGED heap
    /\ UNCHANGED free
    /\ DbFrame

\* What the handler returns, and the status its route declares.
handler_result_default_status(call, rows) ==
    CASE call.route = "POST /products" -> Answer(200, Serialize(BodySchema, call.rows[1]))
      [] call.route = "POST /products/bulk" -> Answer(200, [inserted |-> Len(call.req)])
      [] OTHER -> Answer(200, rows)

handler_result(call, rows) ==
    CASE call.route = "POST /products" -> Answer(201, Serialize(BodySchema, call.rows[1]))
      [] call.route = "POST /products/bulk" -> Answer(200, [inserted |-> Len(call.req)])
      [] OTHER -> Answer(200, rows)

\* Leaving the connection block normally: the connection commits what is
\* open on it and goes back to the pool.
exit_block(h, k) == commit(h, k)

\* cur.execute("SELECT product FROM products_raw"); rows = cur.fetchall();
\* return [row[0] for row in rows], which leaves the connection block.
execute_select(c) ==
    /\ calls[c].pc = "execute"
    /\ calls[c].route = "GET /products"
    /\ \E k \in calls[c].conn : heap' = exit_block(heap, k)
    /\ free' = putconn(free, calls[c].conn)
    /\ calls' = [calls EXCEPT ![c] = Finish(c, handler_result(calls[c], Rows(heap)))]
    /\ DbFrame

\* conn.commit(), after which the connection block is left and the handler
\* returns.
commit_call(c) ==
    /\ calls[c].pc = "commit"
    /\ \E k \in calls[c].conn : heap' = exit_block(commit(heap, k), k)
    /\ free' = putconn(free, calls[c].conn)
    /\ calls' = [calls EXCEPT ![c] = Finish(c, handler_result(calls[c], <<>>))]
    /\ DbFrame

\* The driver raises in execute, executemany or commit: the exception leaves
\* the connection block, which rolls back and returns the connection, and
\* then the handler.
on_error_commits(h, k) == commit(h, k)

on_error(h, k) == rollback(h, k)

driver_error(c) ==
    /\ calls[c].pc \in {"execute", "commit"}
    /\ \E k \in calls[c].conn : heap' = on_error(heap, k)
    /\ free' = putconn(free, calls[c].conn)
    /\ calls' = [calls EXCEPT ![c] = Finish(c, ServerError)]
    /\ DbFrame

Next ==
    \/ root
    \/ get_item
    \/ get_users
    \/ post_user
    \/ get_fox
    \/ hello_world
    \/ store_products
    \/ \E c \in Calls :
          \/ db_root(c)
          \/ receive_product(c)
          \/ receive_bulk(c)
          \/ receive_scan(c)
          \/ acquire(c)
          \/ pool_timeout(c)
          \/ execute_insert(c)
          \/ execute_select(c)
          \/ commit_call(c)
          \/ driver_error(c)

Spec == Init /\ [][Next]_vars

(***************************************************************************)
(* The vocabulary of the properties: what a payload is, read from the      *)
(* schema alone (not from the validation above).                           *)
(***************************************************************************)
Field(schema, name) == schema[CHOOSE i \in 1..Len(schema) : schema[i][1] = name]

ScalarHasType(type, tag, text) ==
    CASE type = "str" -> tag = "str"
      [] type = "bool" -> tag = "bool"
      [] type = "float" -> tag = "num"
      [] type = "int" -> tag = "num" /\ text \in IntTexts
      [] OTHER -> FALSE

\* The value is of the JSON type the field declares.
HasType(type, v) ==
    IF type = "list[str]"
    THEN v[1] = "arr" /\ \A i \in 1..Len(v[3]) : v[3][i][2] = "str"
    ELSE IF Nested(type) # <<>>
    THEN /\ v[1] = "obj"
         /\ Len(v[3]) = Len(Nested(type))
         /\ \A i \in 1..Len(v[3]) :
               /\ v[3][i][1] = Nested(type)[i][1]
               /\ ScalarHasType(Nested(type)[i][2], v[3][i][2], v[3][i][3])
    ELSE ScalarHasType(type, v[1], v[2])

\* A value of another JSON type that lax validation still reads as the
\* declared type: a numeric string or a boolean for a number, a boolean word
\* or 0/1 for a bool.
ScalarReadable(type, tag, text) ==
    \/ ScalarHasType(type, tag, text)
    \/ type = "bool" /\ tag = "str" /\ Lower(text) \in TrueWords \cup FalseWords
    \/ type = "bool" /\ tag = "num" /\ text \in {"0", "1"}
    \/ type = "float" /\ tag = "str" /\ text \in FloatTexts
    \/ type = "int" /\ tag = "str" /\ text \in IntTexts
    \/ type \in {"int", "float"} /\ tag = "bool"

Readable(type, v) ==
    IF type = "list[str]" THEN HasType(type, v)
    ELSE IF Nested(type) # <<>>
    THEN /\ v[1] = "obj"
         /\ \A i \in 1..Len(Nested(type)) :
               \E j \in 1..Len(v[3]) :
                  /\ v[3][j][1] = Nested(type)[i][1]
                  /\ ScalarReadable(Nested(type)[i][2], v[3][j][2], v[3][j][3])
    ELSE v[3] = <<>> /\ ScalarReadable(type, v[1], v[2])

Declared(schema, p) == DOMAIN p \cap FieldNames(schema)

MayBeNull(schema, p, n) == ~Field(schema, n)[3] /\ p[n] = Null

\* A required field is missing.
Missing(schema, p) ==
    \E i \in 1..Len(schema) : schema[i][3] /\ schema[i][1] \notin DOMAIN p

\* A field holds a value that is not of its declared JSON type.
WrongTyped(schema, p) ==
    \E n \in Declared(schema, p) :
        ~MayBeNull(schema, p, n) /\ ~HasType(Field(schema, n)[2], p[n])

\* A field holds a value that cannot be read as its declared type at all.
Unreadable(schema, p) ==
    \E n \in Declared(schema, p) :
        ~MayBeNull(schema, p, n) /\ ~Readable(Field(schema, n)[2], p[n])

\* Every field of the request is in the response with the same value.
RoundTrips(req, body) == \A n \in DOMAIN req : n \in DOMAIN body /\ body[n] = req[n]

\* The response is the validated record: a field sent with its declared type
\* comes back unchanged, a field that was converted comes back of its
\* declared type.
Echoes(schema, req, body) ==
    \A n \in Declared(schema, req) :
        /\ n \in DOMAIN body
        /\ IF req[n] = Null \/ HasType(Field(schema, n)[2], req[n])
           THEN body[n] = req[n]
           ELSE HasType(Field(schema, n)[2], body[n])

Creating == {"POST /users", "POST /products", "POST /products/bulk"}

Done(c) == calls[c].pc = "done"

\* The tuples of products_raw that call c wrote, and those of them committed.
TuplesOf(c) == {i \in 1..Len(heap) : heap[i].tx = c}

CommittedOf(c) == {i \in TuplesOf(c) : heap[i].committed}

RECURSIVE IsSubsequence(_, _)
IsSubsequence(s, t) ==
    IF s = <<>> THEN TRUE
    ELSE IF t = <<>> THEN FALSE
    ELSE IF Head(s) = Head(t) THEN IsSubsequence(Tail(s), Tail(t))
    ELSE IsSubsequence(s, Tail(t))

IsPrefix(s, t) == Len(s) <= Len(t) /\ SubSeq(t, 1, Len(s)) = s

Usernames(users) == [i \in 1..Len(users) |-> [username |-> users[i].username]]

(***************************************************************************)
(* C1.  GET /users after N successful POST /users.                         *)
(***************************************************************************)
\* C1 as stated: after N successful creations, GET /users returns exactly N
\* records, in the order created.
C1_ExactlyTheCreated ==
    last.route = "GET /users" =>
        /\ Len(last.body) = Len(created)
        /\ last.body = Usernames(created)

\* C1 as amended: GET /users returns the three seeded users followed by the
\* N created ones in the order created, 3 + N records, each reduced to its
\* username by the response model.
C1_SeedThenCreated ==
    last.route = "GET /users" =>
        /\ last.status = 200
        /\ Len(last.body) = Len(SeedUsers) + Len(created)
        /\ last.body = Usernames(SeedUsers) \o Usernames(created)

C1_Witness ==
    /\ last.route = "GET /users"
    /\ Len(created) = MaxCreated
    /\ created[1] # created[MaxCreated]

(***************************************************************************)
(* C2.  Payloads that fail validation.                                     *)
(***************************************************************************)
\* The request of call c is a creation whose body (one element of it, for
\* the bulk route) satisfies Bad.
BadCreation(c, Bad(_, _)) ==
    \/ calls[c].route = "POST /products" /\ Bad(BodySchema, calls[c].req)
    \/ /\ calls[c].route = "POST /products/bulk"
       /\ \E i \in 1..Len(calls[c].req) : Bad(ProductSchema, calls[c].req[i])

\* Rejected before the handler: a 4xx answer, nothing written by the call.
Refused(c) ==
    /\ Done(c)
    /\ calls[c].status \in 400..499
    /\ calls[c].sent = 0
    /\ TuplesOf(c) = {}

MissingOrWrongTyped(schema, p) == Missing(schema, p) \/ WrongTyped(schema, p)

MissingOrUnreadable(schema, p) == Missing(schema, p) \/ Unreadable(schema, p)

Accepted(schema, p) == ~Missing(schema, p) /\ ~Unreadable(schema, p)

\* C3 as stated: every valid payload sent to POST /users or POST /products is
\* answered 201 with a body that holds each field of the request unchanged
\* (read in the claim's favour: a call in which the pool or the driver raised
\* is not held against it).
C3_RoundTripsUnchanged ==
    /\ last.route = "POST /users" /\ Accepted(UserSchema, last.req)
          => last.status = 201 /\ RoundTrips(last.req, last.body)
    /\ \A c \in Calls :
          Done(c) /\ calls[c].route = "POST /products" /\ Accepted(BodySchema, calls[c].req)
             => \/ calls[c].status = 201 /\ RoundTrips(calls[c].req, calls[c].body)
                \/ calls[c].status = 500

\* C3 as amended: every payload the Schema Model accepts is answered 201 by
\* POST /users, and by POST /products unless the pool or the driver raises
\* (then 500); the 201 body is the validated record: a field sent with its
\* declared type comes back unchanged, a field sent as a convertible value of
\* another type comes back converted to the declared type.
C3_EchoesValidated ==
    /\ last.route = "POST /users" /\ Accepted(UserSchema, last.req)
          => last.status = 201 /\ Echoes(UserSchema, last.req, last.body)
    /\ \A c \in Calls :
          Done(c) /\ calls[c].route = "POST /products" /\ Accepted(BodySchema, calls[c].req)
             => \/ calls[c].status = 201 /\ Echoes(BodySchema, calls[c].req, calls[c].body)
                \/ calls[c].status = 500 /\ CommittedOf(c) = {}

C3_Witness ==
    \E c, d \in Calls :
       /\ calls[c].route = "POST /products" /\ calls[c].status = 201
       /\ RoundTrips(calls[c].req, calls[c].body)
       /\ calls[d].route = "POST /products" /\ calls[d].status = 201
       /\ WrongTyped(BodySchema, calls[d].req)

(***************************************************************************)
(* C4.  POST /products/bulk reports what it committed.                     *)
(***************************************************************************)
\* C4: a POST /products/bulk with K valid products (K >= 0) that the handler
\* answers is answered {"inserted": K}, and from then on a scan of the table
\* shows at least K rows more than a scan showed when the request arrived:
\* the K rows of the call are committed, so the count reported never exceeds
\* the rows committed.
C4_BulkReportsCommitted ==
    \A c \in Calls :
       /\ Done(c)
       /\ calls[c].route = "POST /products/bulk"
       /\ \A i \in 1..Len(calls[c].req) : Accepted(ProductSchema, calls[c].req[i])
       => \/ calls[c].status = 500
          \/ /\ calls[c].body = [inserted |-> Len(calls[c].req)]
             /\ Cardinality(CommittedOf(c)) = Len(calls[c].req)
             /\ Len(Rows(heap)) >= calls[c].before + Len(calls[c].req)

\* The bulk call of MaxBulk products is answered, and a GET /products served
\* afterwards shows its rows.
C4_Witness ==
    \E c, d \in Calls :
       /\ Done(c) /\ calls[c].route = "POST /products/bulk"
       /\ Len(calls[c].req) = MaxBulk
       /\ calls[c].body = [inserted |-> MaxBulk]
       /\ Done(d) /\ calls[d].route = "GET /products" /\ calls[d].status = 200
       /\ Len(calls[d].body) >= calls[c].before + MaxBulk
       /\ calls[d].body = calls[c].rows

(***************************************************************************)
(* C5.  Connections are returned.                                          *)
(***************************************************************************)
Held == UNION {calls[c].conn : c \in Calls}

\* C5: a call holds one connection of the pool from the moment it enters the
\* connection block until it leaves it, normally or by an exception; a call
\* that is over holds none, and every connection is either in the pool or
\* held by a call in flight.
C5_ConnectionsReturned ==
    /\ \A c \in Calls :
          /\ calls[c].pc \in {"execute", "commit"} => Cardinality(calls[c].conn) = 1
          /\ calls[c].pc \in {"idle", "acquire", "done"} => calls[c].conn = {}
    /\ free \cap Held = {}
    /\ free \cup Held \in {{}, Conns}

\* One call failed in the driver after its INSERT, another returned normally,
\* and every connection is back in the pool.
C5_Witness ==
    \E c, d \in Calls :
       /\ Done(c) /\ calls[c].status = 500 /\ calls[c].sent > 0
       /\ Done(d) /\ calls[d].status = 201
       /\ free = Conns

(***************************************************************************)
(* C6.  A connection is private to the call that holds it.                 *)
(***************************************************************************)
\* C6: at no time do two calls hold the same connection, no connection held
\* by a call is in the pool, and every uncommitted tuple sits on a connection
\* that the call which wrote it, and no other call, holds: so a statement or
\* a commit of one call never runs on a connection another call holds.
C6_ConnectionsPrivate ==
    /\ \A c, d \in Calls : c # d => calls[c].conn \cap calls[d].conn = {}
    /\ free \cap Held = {}
    /\ \A i \in 1..Len(heap) :
          ~heap[i].committed =>
             /\ heap[i].conn # {}
             /\ heap[i].conn = calls[heap[i].tx].conn
             /\ \A d \in Calls \ {heap[i].tx} : heap[i].conn \cap calls[d].conn = {}

\* Two calls in flight at once, each with an uncommitted row on its own
\* connection.
C6_Witness ==
    \E c, d \in Calls :
       /\ c # d
       /\ InFlight(c) /\ InFlight(d)
       /\ calls[c].conn # {} /\ calls[d].conn # {}
       /\ \E i \in TuplesOf(c) : ~heap[i].committed
       /\ \E i \in TuplesOf(d) : ~heap[i].committed

(***************************************************************************)
(* C7.  Status of a successful answer.                                     *)
(***************************************************************************)
Succeeded(status) == status \in 200..299

\* C7 as stated: a successful answer is 201 on every route that creates
\* records (POST /users, POST /products, POST /products/bulk) and 200 on
\* every other route.
C7_CreatingRoutesAnswer201 ==
    /\ Succeeded(last.status) =>
          last.status = IF last.route \in Creating THEN 201 ELSE 200
    /\ \A c \in Calls :
          Done(c) /\ Succeeded(calls[c].status) =>
             calls[c].status = IF calls[c].route \in Creating THEN 201 ELSE 200

\* C7 as amended: a successful answer is 201 on POST /users and POST
\* /products, and 200 on every other route, POST /products/bulk included.
C7_SingleCreationsAnswer201 ==
    /\ Succeeded(last.status) =>
          last.status = IF last.route \in {"POST /users", "POST /products"} THEN 201 ELSE 200
    /\ \A c \in Calls :
          Done(c) /\ Succeeded(calls[c].status) =>
             calls[c].status =
                IF calls[c].route \in {"POST /users", "POST /products"} THEN 201 ELSE 200

C7_Witness ==
    \E c, d \in Calls :
       /\ Done(c) /\ calls[c].route = "POST /products/bulk" /\ calls[c].status = 200
       /\ Len(calls[c].req) > 0
       /\ Done(d) /\ calls[d].route = "POST /products" /\ calls[d].status = 201

(***************************************************************************)
(* C8.  Stores only grow.                                                  *)
(***************************************************************************)
Reading == {"GET /", "GET /items/{item_id}", "GET /users", "GET /products", "GET /fox"}

\* The step serves a request of a read endpoint: an in-memory application
\* answers one, or a call of a database application that serves one moves.
ReadStep ==
    \/ last' # last /\ last'.route \in Reading
    \/ \E c \in Calls :
          /\ calls'[c] # calls[c]
          /\ calls'[c].route \in Reading
          /\ \A d \in Calls \ {c} : calls'[d] = calls[d]

ReadsChangeNothing ==
    ReadStep => userList' = userList /\ productList' = productList /\ heap' = heap

\* C8 as stated: what a store (userList, the rows a scan of products_raw
\* shows) holds at one point is a prefix of what it holds at every later
\* point, and the read endpoints leave every store unchanged.
C8_EarlierIsPrefix ==
    [][/\ IsPrefix(userList, userList')
       /\ IsPrefix(Rows(heap), Rows(heap'))
       /\ ReadsChangeNothing]_vars

\* C8 as amended: userList at one point is a prefix of userList at every
\* later point; every row a scan of products_raw shows is still shown,
\* unchanged and in the same relative order, by every later scan, but a row
\* committed later by an overlapping call can precede it; productList never
\* changes; the read endpoints leave every store unchanged.
C8_EarlierIsKept ==
    [][/\ IsPrefix(userList, userList')
       /\ productList' = productList
       /\ IsSubsequence(Visible(heap), Visible(heap'))
       /\ ReadsChangeNothing]_vars

\* A committed row stored behind a row that another call has not committed
\* yet.
C8_Witness ==
    \E i, j \in 1..Len(heap) :
       /\ i < j
       /\ ~heap[i].committed /\ heap[j].committed
       /\ InFlight(heap[i].tx) /\ Done(heap[j].tx)

(***************************************************************************)
(* C9.  The external fetch.                                                *)
(***************************************************************************)
Fetching(r) ==
    \/ r.route = "GET /fox"
    \/ app = "exercise_1" /\ r.route = "GET /products"

\* The GET raised, the body is not JSON, or the JSON does not pass the
\* Schema Model (one failing item of the list is enough).
UpstreamFails(r) ==
    \/ r.req.kind # "json"
    \/ r.route = "GET /fox" /\ MissingOrUnreadable(FoxSchema, r.req.value)
    \/ /\ r.route = "GET /products"
       /\ \E i \in 1..Len(r.req.value) :
             MissingOrUnreadable(StoreProductSchema, r.req.value[i])

\* C9: GET /fox and exercise_1's GET /products issue exactly one upstream GET
\* per request; when it raises, answers no JSON, or answers JSON that fails
\* validation, the request ends with the generic 500 answer, with no partial
\* result in it, and userList and productList stay as they were.
C9_FetchFailsWhole ==
    /\ [](Fetching(last) =>
             /\ last.gets = 1
             /\ UpstreamFails(last) => last.status = 500 /\ last.body = ServerError.body
             /\ ~UpstreamFails(last) => last.status = 200)
    /\ [][Fetching(last') =>
             userList' = userList /\ productList' = productList /\ created' = created]_vars

\* The upstream list starts with a valid item and ends with a failing one.
C9_Witness ==
    /\ app = "exercise_1"
    /\ last.route = "GET /products"
    /\ last.req.kind = "json"
    /\ Len(last.req.value) = MaxItems
    /\ Accepted(StoreProductSchema, last.req.value[1])
    /\ MissingOrUnreadable(StoreProductSchema, last.req.value[MaxItems])
    /\ last.status = 500
    /\ productList = SeedProducts

(***************************************************************************)
(* C10.  An insert is all or nothing.                                      *)
(***************************************************************************)
\* C10: of the rows a call was asked to insert, a scan shows all or none,
\* never some; a call that ended with the driver raising (before its commit
\* completed, also after some rows of a bulk batch were executed) has left no
\* row, committed or open, in the table; a call that was answered normally
\* has committed all its rows.
C10_AllOrNothing ==
    \A c \in Calls :
       /\ Cardinality(CommittedOf(c)) \in {0, Len(calls[c].rows)}
       /\ Done(c) /\ calls[c].status = 500 => TuplesOf(c) = {}
       /\ Done(c) /\ Succeeded(calls[c].status) =>
             Cardinality(CommittedOf(c)) = Len(calls[c].rows)

\* A bulk call failed after the first of its MaxBulk rows was executed, and
\* none of its rows is in the table.
C10_Witness ==
    \E c \in Calls :
       /\ Done(c) /\ calls[c].route = "POST /products/bulk"
       /\ calls[c].status = 500
       /\ Len(calls[c].rows) = MaxBulk
       /\ calls[c].sent > 0 /\ calls[c].sent < MaxBulk
       /\ TuplesOf(c) = {}

====
